---- MODULE Spec2Model ----
(***************************************************************************)
(* Model of the multisig program (programs/multisig/src/lib.rs).           *)
(*                                                                         *)
(* State: the Multisig accounts (one per multisig_id, a PDA) and the       *)
(* Transaction accounts (one per (multisig_id, nonce), a PDA), plus the    *)
(* log of instructions the invoked program has accepted, and the outcome   *)
(* of the last instruction.                                                *)
(*                                                                         *)
(* Every instruction handler is an operator that works on the in-memory    *)
(* copy of its accounts, as the Rust code does, and returns the result     *)
(* code together with that copy.  The copy is written back only when the   *)
(* handler returns Ok (Commit): a handler that returns Err fails the       *)
(* whole instruction, and none of its writes is persisted.                 *)
(***************************************************************************)
EXTENDS Integers, Sequences, FiniteSets, TLC

\* ---------------------------------------------------------------- constants
MAX_OWNERS == 10
MAX_STORED_NONCES == 100
MAX_INSTRUCTION_ACCOUNTS == 10
MAX_INSTRUCTION_DATA_SIZE == 1024

\* ------------------------------------------------------------------- bounds
MaxNonce == 1
MaxThreshold == 3
\* the number of fresh nonces proposed to a nearly full used_nonces window
WindowExtra == 3
\* the number of execute_transaction calls in flight on one proposal
NumCalls == 2

\* ------------------------------------------------------------ input domains
MultisigIds == {1}
Nonces == 1..MaxNonce
\* an identity that is in none of the owner lists below
Outsider == MAX_OWNERS + 2
\* the identities that sign instructions
Callers == {1, 2, Outsider}
\* the identity that pays for and creates a multisig
Creators == {Outsider}

RangeList(n) == [i \in 1..n |-> i]

\* owner lists: empty, one owner, two owners, a repeated owner, a list of
\* exactly MAX_OWNERS distinct owners and one of MAX_OWNERS + 1
OwnerLists ==
    { <<>>, <<1>>, <<1, 1>>, <<1, 2>>, <<1, 2, 1>>,
      RangeList(MAX_OWNERS), RangeList(MAX_OWNERS + 1) }

\* thresholds: 0, small ones, and one that only MAX_OWNERS + 1 owners admit
Thresholds == (0..MaxThreshold) \cup {MAX_OWNERS + 1}

Keys == MultisigIds \X Nonces


\* --------------------------------------------------------------- the state
VARIABLES
    multisigs,      \* multisig_id -> Multisig account, or none
    transactions,   \* <<multisig_id, nonce>> -> Transaction account, or none
    dispatched,     \* <<multisig_id, nonce>> -> instructions the invoked program accepted
    last,           \* the last instruction processed and its outcome
    calls           \* the execute_transaction calls submitted side by side

vars == <<multisigs, transactions, dispatched, last, calls>>

\* struct TransactionAccount
TransactionAccount(pk, signer, writable) ==
    [pubkey |-> pk, is_signer |-> signer, is_writable |-> writable]

Zeros(n) == [i \in 1..n |-> 0]

\* the (program_id, accounts, data) triples proposed: one that passes the
\* limits, one with too many accounts, one with too much data
Instructions ==
    { [program_id |-> 21, accounts |-> <<TransactionAccount(31, FALSE, TRUE)>>, data |-> <<7, 8>>],
      [program_id |-> 21,
       accounts |-> [i \in 1..(MAX_INSTRUCTION_ACCOUNTS + 1) |-> TransactionAccount(30 + i, FALSE, FALSE)],
       data |-> <<7>>],
      [program_id |-> 21, accounts |-> <<>>, data |-> Zeros(MAX_INSTRUCTION_DATA_SIZE + 1)] }

\* the optional system nonce account passed to create_transaction
NonceAccounts == {"None", "Valid", "WrongAuthority", "AdvanceFails"}

\* --------------------------------------------------------- account records
\* struct Multisig
Multisig(owners, threshold, creator, multisig_id, used_nonces) ==
    [exists |-> TRUE, owners |-> owners, threshold |-> threshold,
     creator |-> creator, multisig_id |-> multisig_id, used_nonces |-> used_nonces]

\* struct Transaction
Transaction(multisig, proposer, approvals, did_execute, nonce, program_id, accounts, data) ==
    [exists |-> TRUE, multisig |-> multisig, proposer |-> proposer,
     approvals |-> approvals, did_execute |-> did_execute, nonce |-> nonce,
     program_id |-> program_id, accounts |-> accounts, data |-> data]

\* the events
NoEvent == [name |-> "none"]

TransactionCreated(multisig, transaction, proposer, nonce) ==
    [name |-> "TransactionCreated", multisig |-> multisig, transaction |-> transaction,
     proposer |-> proposer, nonce |-> nonce]

TransactionApproved(transaction, approver, approvals_count, threshold) ==
    [name |-> "TransactionApproved", transaction |-> transaction, approver |-> approver,
     approvals_count |-> approvals_count, threshold |-> threshold]

TransactionExecuted(transaction, executor) ==
    [name |-> "TransactionExecuted", transaction |-> transaction, executor |-> executor]

\* the address of the Transaction account of (multisig, nonce)
TransactionKey(multisig_id, nonce) == <<multisig_id, nonce>>

\* an address that holds no account yet: no data, every field reads as zero
NoMultisig ==
    [exists |-> FALSE, owners |-> <<>>, threshold |-> 0, creator |-> 0,
     multisig_id |-> 0, used_nonces |-> <<>>]

NoTransaction ==
    [exists |-> FALSE, multisig |-> 0, proposer |-> 0, approvals |-> <<>>,
     did_execute |-> FALSE, nonce |-> 0, program_id |-> 0, accounts |-> <<>>, data |-> <<>>]

\* Vec::contains
Contains(seq, x) == \E i \in 1..Len(seq) : seq[i] = x

\* the HashSet loop of initialize: some owner is inserted a second time
HasDuplicate(owners) ==
    \E i \in 1..Len(owners) : \E j \in 1..(i - 1) : owners[j] = owners[i]

\* `as u8`
AsU8(n) == n % 256

\* space = ... of the Multisig account, and the Borsh size of its contents
MultisigSpace == 8 + 4 + (32 * MAX_OWNERS) + 1 + 32 + 8 + 4 + (8 * MAX_STORED_NONCES)

MultisigSize(m) == 8 + 4 + (32 * Len(m.owners)) + 1 + 32 + 8 + 4 + (8 * Len(m.used_nonces))

\* space = ... of the Transaction account, and the Borsh size of its contents
TransactionSpace ==
    8 + 32 + 32 + 4 + (32 * MAX_OWNERS) + 1 + 8 + 32 + 4 + (65 * 10) + 4 + 1024

TransactionSize(t) ==
    8 + 32 + 32 + 4 + (32 * Len(t.approvals)) + 1 + 8 + 32
      + 4 + (34 * Len(t.accounts)) + 4 + Len(t.data)

\* a runtime that keeps the writes of a failed instruction
CommitAlways(res, old, new) == new

\* An instruction that returns Err persists nothing: the account state
\* after it is the state before it.
Commit(res, old, new) == IF res = "Ok" THEN new ELSE old

\* ----------------------------------------------------------------- handlers
\* initialize without the duplicate-owner loop
initialize_no_dup(multisig_id, owners, threshold, creator) ==
    LET multisig == Multisig(owners, threshold, creator, multisig_id, <<>>)
        res == IF threshold > AsU8(Len(multisig.owners)) THEN "InvalidThreshold"
               ELSE IF multisig.owners = <<>> THEN "NoOwners"
               ELSE "Ok"
    IN  [res |-> res, multisig |-> multisig]

\* fn initialize: the fields are assigned first and validated afterwards
initialize(multisig_id, owners, threshold, creator) ==
    LET multisig == Multisig(owners, threshold, creator, multisig_id, <<>>)
        res == IF threshold > AsU8(Len(multisig.owners)) THEN "InvalidThreshold"
               ELSE IF multisig.owners = <<>> THEN "NoOwners"
               ELSE IF HasDuplicate(multisig.owners) THEN "DuplicateOwners"
               ELSE "Ok"
    IN  [res |-> res, multisig |-> multisig]

\* the optional nonce account block of create_transaction
advance_nonce(nonce_account) ==
    CASE nonce_account = "None" -> "Ok"
      [] nonce_account = "WrongAuthority" -> "InvalidNonceAuthority"
      [] nonce_account = "AdvanceFails" -> "NonceAdvanceFailed"
      [] OTHER -> "Ok"

\* used_nonces when the newest entry is dropped to make room
push_nonce_evict_newest(used_nonces, nonce) ==
    LET kept == IF Len(used_nonces) >= MAX_STORED_NONCES
                THEN SubSeq(used_nonces, 1, Len(used_nonces) - 1)
                ELSE used_nonces
    IN  Append(kept, nonce)

\* used_nonces after the nonce is stored
push_nonce(used_nonces, nonce) ==
    LET kept == IF Len(used_nonces) >= MAX_STORED_NONCES THEN Tail(used_nonces)
                ELSE used_nonces
    IN  Append(kept, nonce)

\* create_transaction without the proposer check
create_transaction_any_proposer(multisig, proposer, nonce, ix, nonce_account) ==
    LET res == IF Contains(multisig.used_nonces, nonce) THEN "NonceAlreadyUsed"
               ELSE IF ~(Len(ix.accounts) <= MAX_INSTRUCTION_ACCOUNTS) THEN "TooManyAccounts"
               ELSE IF ~(Len(ix.data) <= MAX_INSTRUCTION_DATA_SIZE) THEN "InstructionDataTooLarge"
               ELSE advance_nonce(nonce_account)
        transaction == Transaction(multisig.multisig_id, proposer, <<>>, FALSE, nonce,
                                   ix.program_id, ix.accounts, ix.data)
    IN  [res |-> res,
         transaction |-> transaction,
         multisig |-> [multisig EXCEPT !.used_nonces = push_nonce(@, nonce)],
         event |-> TransactionCreated(multisig.multisig_id,
                                      TransactionKey(multisig.multisig_id, nonce), proposer, nonce)]

\* fn create_transaction
create_transaction(multisig, proposer, nonce, ix, nonce_account) ==
    LET res == IF ~Contains(multisig.owners, proposer) THEN "NotAnOwner"
               ELSE IF Contains(multisig.used_nonces, nonce) THEN "NonceAlreadyUsed"
               ELSE IF ~(Len(ix.accounts) <= MAX_INSTRUCTION_ACCOUNTS) THEN "TooManyAccounts"
               ELSE IF ~(Len(ix.data) <= MAX_INSTRUCTION_DATA_SIZE) THEN "InstructionDataTooLarge"
               ELSE advance_nonce(nonce_account)
        transaction == Transaction(multisig.multisig_id, proposer, <<>>, FALSE, nonce,
                                   ix.program_id, ix.accounts, ix.data)
    IN  [res |-> res,
         transaction |-> transaction,
         multisig |-> [multisig EXCEPT !.used_nonces = push_nonce(@, nonce)],
         event |-> TransactionCreated(multisig.multisig_id,
                                      TransactionKey(multisig.multisig_id, nonce), proposer, nonce)]

\* approve_transaction with its checks switched on or off
approve_transaction_variant(multisig, transaction, owner, check_owner, check_approved, check_executed) ==
    LET res == IF check_owner /\ ~Contains(multisig.owners, owner) THEN "NotOwner"
               ELSE IF check_approved /\ Contains(transaction.approvals, owner)
               THEN "AlreadyApproved"
               ELSE IF check_executed /\ transaction.did_execute THEN "AlreadyExecuted"
               ELSE "Ok"
        approved == [transaction EXCEPT !.approvals = Append(@, owner)]
    IN  [res |-> res,
         transaction |-> approved,
         event |-> TransactionApproved(TransactionKey(transaction.multisig, transaction.nonce),
                                       owner, AsU8(Len(approved.approvals)), multisig.threshold)]

\* approve_transaction without the already-approved check
approve_transaction_no_dedup(multisig, transaction, owner) ==
    approve_transaction_variant(multisig, transaction, owner, TRUE, FALSE, TRUE)

\* approve_transaction without the did_execute check
approve_transaction_no_executed_check(multisig, transaction, owner) ==
    approve_transaction_variant(multisig, transaction, owner, TRUE, TRUE, FALSE)

\* approve_transaction without the owner check
approve_transaction_any_signer(multisig, transaction, owner) ==
    approve_transaction_variant(multisig, transaction, owner, FALSE, TRUE, TRUE)

\* fn approve_transaction
approve_transaction(multisig, transaction, owner) ==
    LET res == IF ~Contains(multisig.owners, owner) THEN "NotOwner"
               ELSE IF Contains(transaction.approvals, owner) THEN "AlreadyApproved"
               ELSE IF transaction.did_execute THEN "AlreadyExecuted"
               ELSE "Ok"
        approved == [transaction EXCEPT !.approvals = Append(@, owner)]
    IN  [res |-> res,
         transaction |-> approved,
         event |-> TransactionApproved(TransactionKey(transaction.multisig, transaction.nonce),
                                       owner, AsU8(Len(approved.approvals)), multisig.threshold)]

\* an Instruction built after the stored data was cleared
BuildInstruction_after_clear(transaction) ==
    [program_id |-> transaction.program_id, accounts |-> <<>>, data |-> <<>>]

\* the Instruction built by execute_transaction from the stored data
BuildInstruction(transaction) ==
    [program_id |-> transaction.program_id,
     accounts |-> [i \in 1..Len(transaction.accounts) |->
                     [pubkey |-> transaction.accounts[i].pubkey,
                      is_signer |-> transaction.accounts[i].is_signer,
                      is_writable |-> transaction.accounts[i].is_writable]],
     data |-> transaction.data]

\* execute_transaction with the checks and the mark switched on or off:
\* recheck (the did_execute check), quorum (0: none, 1: `>`), mark (did_execute = true)
execute_transaction_variant(multisig, transaction, executor, dispatch_ok, recheck, quorum, mark) ==
    LET marked == IF mark THEN [transaction EXCEPT !.did_execute = TRUE] ELSE transaction
        cleared == [marked EXCEPT !.data = <<>>, !.accounts = <<>>]
        event == TransactionExecuted(TransactionKey(transaction.multisig, transaction.nonce),
                                     executor)
        enough == CASE quorum = 0 -> TRUE
                    [] quorum = 1 -> Len(transaction.approvals) > multisig.threshold
                    [] OTHER -> Len(transaction.approvals) >= multisig.threshold
    IN  IF recheck /\ transaction.did_execute
        THEN [res |-> "AlreadyExecuted", transaction |-> transaction, invoked |-> FALSE,
              event |-> NoEvent]
        ELSE IF ~enough
        THEN [res |-> "NotEnoughApprovals", transaction |-> transaction, invoked |-> FALSE,
              event |-> NoEvent]
        ELSE IF ~dispatch_ok
        THEN [res |-> "DispatchError", transaction |-> marked, invoked |-> TRUE,
              event |-> NoEvent]
        ELSE [res |-> "Ok", transaction |-> cleared, invoked |-> TRUE, event |-> event]

\* execute_transaction without the approvals check
execute_transaction_no_quorum(multisig, transaction, executor, dispatch_ok) ==
    execute_transaction_variant(multisig, transaction, executor, dispatch_ok, TRUE, 0, TRUE)

\* execute_transaction that asks for more than threshold approvals
execute_transaction_strict(multisig, transaction, executor, dispatch_ok) ==
    execute_transaction_variant(multisig, transaction, executor, dispatch_ok, TRUE, 1, TRUE)

\* execute_transaction without the did_execute check
execute_transaction_no_recheck(multisig, transaction, executor, dispatch_ok) ==
    execute_transaction_variant(multisig, transaction, executor, dispatch_ok, FALSE, 2, TRUE)

\* execute_transaction that never sets did_execute
execute_transaction_unmarked(multisig, transaction, executor, dispatch_ok) ==
    execute_transaction_variant(multisig, transaction, executor, dispatch_ok, TRUE, 2, FALSE)

\* fn execute_transaction; dispatch_ok is the outcome of invoke_signed
execute_transaction(multisig, transaction, executor, dispatch_ok) ==
    LET marked == [transaction EXCEPT !.did_execute = TRUE]
        cleared == [marked EXCEPT !.data = <<>>, !.accounts = <<>>]
        event == TransactionExecuted(TransactionKey(transaction.multisig, transaction.nonce),
                                     executor)
    IN  IF transaction.did_execute
        THEN [res |-> "AlreadyExecuted", transaction |-> transaction, invoked |-> FALSE,
              event |-> NoEvent]
        ELSE IF ~(Len(transaction.approvals) >= multisig.threshold)
        THEN [res |-> "NotEnoughApprovals", transaction |-> transaction, invoked |-> FALSE,
              event |-> NoEvent]
        ELSE IF ~dispatch_ok
        THEN [res |-> "DispatchError", transaction |-> marked, invoked |-> TRUE,
              event |-> NoEvent]
        ELSE [res |-> "Ok", transaction |-> cleared, invoked |-> TRUE, event |-> event]

\* ---------------------------------------------------- account constraints
\* Initialize whose multisig account may already be in use
InitializeAccounts_reinit(multisig_id) == "Ok"

\* #[derive(Accounts)] Initialize: `init` needs a multisig PDA not yet in use
InitializeAccounts(multisig_id) ==
    IF multisigs[multisig_id].exists THEN "AccountInUse" ELSE "Ok"

\* CreateTransaction whose transaction account may already be in use
CreateTransactionAccounts_no_init(multisig_id, nonce) ==
    IF ~multisigs[multisig_id].exists THEN "AccountNotInitialized" ELSE "Ok"

\* #[derive(Accounts)] CreateTransaction: the multisig exists, the
\* transaction PDA of (multisig, nonce) is not yet in use
CreateTransactionAccounts(multisig_id, nonce) ==
    IF ~multisigs[multisig_id].exists THEN "AccountNotInitialized"
    ELSE IF transactions[<<multisig_id, nonce>>].exists THEN "AccountInUse"
    ELSE "Ok"

\* #[derive(Accounts)] ApproveTransaction
ApproveTransactionAccounts(multisig_id, nonce) ==
    IF ~multisigs[multisig_id].exists THEN "AccountNotInitialized"
    ELSE IF ~transactions[<<multisig_id, nonce>>].exists THEN "AccountNotInitialized"
    ELSE "Ok"

\* #[derive(Accounts)] ExecuteTransaction: any signer may be the executor
ExecuteTransactionAccounts(multisig_id, nonce) ==
    IF ~multisigs[multisig_id].exists THEN "AccountNotInitialized"
    ELSE IF ~transactions[<<multisig_id, nonce>>].exists THEN "AccountNotInitialized"
    ELSE "Ok"

\* the write-back of an account at the end of a successful handler
ExitMultisig(res, m) ==
    IF res = "Ok" /\ MultisigSize(m) > MultisigSpace THEN "AccountDidNotSerialize" ELSE res

ExitTransaction(res, t) ==
    IF res = "Ok" /\ TransactionSize(t) > TransactionSpace THEN "AccountDidNotSerialize" ELSE res

\* what the caller and the log observers see of an instruction: events of a
\* failed instruction are discarded with it
Outcome(op, id, nonce, res, invoked, event) ==
    [op |-> op, id |-> id, nonce |-> nonce, res |-> res, invoked |-> invoked,
     event |-> Commit(res, NoEvent, event)]

\* the calls in flight; none is, unless the runtime is handed several at once
CallIds == 1..NumCalls

NoCall == [pc |-> "idle", key |-> <<0, 0>>, executor |-> 0, loaded |-> NoTransaction,
           res |-> "none", invoked |-> FALSE]

\* ------------------------------------------------------------------ actions
Init ==
    /\ multisigs = [id \in MultisigIds |-> NoMultisig]
    /\ transactions = [k \in Keys |-> NoTransaction]
    /\ dispatched = [k \in Keys |-> <<>>]
    /\ last = Outcome("none", 0, 0, "Ok", FALSE, NoEvent)
    /\ calls = [c \in CallIds |-> NoCall]

Initialize(multisig_id, owners, threshold, creator) ==
    LET acc == InitializeAccounts(multisig_id)
        h == initialize(multisig_id, owners, threshold, creator)
        res == IF acc # "Ok" THEN acc ELSE ExitMultisig(h.res, h.multisig)
    IN  /\ multisigs' = Commit(res, multisigs, [multisigs EXCEPT ![multisig_id] = h.multisig])
        /\ last' = Outcome("initialize", multisig_id, 0, res, FALSE, NoEvent)
        /\ UNCHANGED <<transactions, dispatched, calls>>

CreateTransaction(multisig_id, proposer, nonce, ix, nonce_account) ==
    LET k == TransactionKey(multisig_id, nonce)
        acc == CreateTransactionAccounts(multisig_id, nonce)
        h == create_transaction(multisigs[multisig_id], proposer, nonce, ix, nonce_account)
        res == IF acc # "Ok" THEN acc
               ELSE ExitTransaction(ExitMultisig(h.res, h.multisig), h.transaction)
    IN  /\ multisigs' = Commit(res, multisigs, [multisigs EXCEPT ![multisig_id] = h.multisig])
        /\ transactions' = Commit(res, transactions, [transactions EXCEPT ![k] = h.transaction])
        /\ last' = Outcome("create_transaction", multisig_id, nonce, res, FALSE,
                           IF acc = "Ok" THEN h.event ELSE NoEvent)
        /\ UNCHANGED <<dispatched, calls>>

ApproveTransaction(multisig_id, nonce, owner) ==
    LET k == TransactionKey(multisig_id, nonce)
        acc == ApproveTransactionAccounts(multisig_id, nonce)
        h == approve_transaction(multisigs[multisig_id], transactions[k], owner)
        res == IF acc # "Ok" THEN acc ELSE ExitTransaction(h.res, h.transaction)
    IN  /\ transactions' = Commit(res, transactions, [transactions EXCEPT ![k] = h.transaction])
        /\ last' = Outcome("approve_transaction", multisig_id, nonce, res, FALSE,
                           IF acc = "Ok" THEN h.event ELSE NoEvent)
        /\ UNCHANGED <<multisigs, dispatched, calls>>

ExecuteTransaction(multisig_id, nonce, executor, dispatch_ok) ==
    LET k == TransactionKey(multisig_id, nonce)
        acc == ExecuteTransactionAccounts(multisig_id, nonce)
        h == execute_transaction(multisigs[multisig_id], transactions[k], executor, dispatch_ok)
        res == IF acc # "Ok" THEN acc ELSE ExitTransaction(h.res, h.transaction)
    IN  /\ transactions' = Commit(res, transactions, [transactions EXCEPT ![k] = h.transaction])
        /\ dispatched' = Commit(res, dispatched,
                [dispatched EXCEPT ![k] = Append(@, BuildInstruction(transactions[k]))])
        /\ last' = Outcome("execute_transaction", multisig_id, nonce, res,
                           acc = "Ok" /\ h.invoked,
                           IF acc = "Ok" THEN h.event ELSE NoEvent)
        /\ UNCHANGED <<multisigs, calls>>

Next ==
    \/ \E id \in MultisigIds, owners \in OwnerLists, threshold \in Thresholds, creator \in Creators :
          Initialize(id, owners, threshold, creator)
    \/ \E id \in MultisigIds, proposer \in Callers, nonce \in Nonces,
          ix \in Instructions, nonce_account \in NonceAccounts :
          CreateTransaction(id, proposer, nonce, ix, nonce_account)
    \/ \E id \in MultisigIds, nonce \in Nonces, owner \in Callers :
          ApproveTransaction(id, nonce, owner)
    \/ \E id \in MultisigIds, nonce \in Nonces, executor \in Callers, dispatch_ok \in BOOLEAN :
          ExecuteTransaction(id, nonce, executor, dispatch_ok)

Spec == Init /\ [][Next]_vars

\* ------------------------------------------- proposals with different payloads
\* two (program_id, accounts, data) triples that differ in every part
PayloadInstructions ==
    { [program_id |-> 21, accounts |-> <<TransactionAccount(31, FALSE, TRUE)>>, data |-> <<7, 8>>],
      [program_id |-> 22,
       accounts |-> <<TransactionAccount(32, TRUE, FALSE), TransactionAccount(31, FALSE, FALSE)>>,
       data |-> <<9>>] }

PayloadOwnerLists == { <<1, 2>>, <<1, 1>> }

NextPayload ==
    \/ \E id \in MultisigIds, owners \in PayloadOwnerLists, threshold \in 0..MaxThreshold,
          creator \in Creators :
          Initialize(id, owners, threshold, creator)
    \/ \E id \in MultisigIds, proposer \in Callers, nonce \in Nonces,
          ix \in PayloadInstructions, nonce_account \in {"None", "AdvanceFails"} :
          CreateTransaction(id, proposer, nonce, ix, nonce_account)
    \/ \E id \in MultisigIds, nonce \in Nonces, owner \in Callers :
          ApproveTransaction(id, nonce, owner)
    \/ \E id \in MultisigIds, nonce \in Nonces, executor \in Callers, dispatch_ok \in BOOLEAN :
          ExecuteTransaction(id, nonce, executor, dispatch_ok)

SpecPayload == Init /\ [][NextPayload]_vars

\* ------------------------------------------- a nearly full used_nonces window
\* the multisig of owners 1 and 2 after proposals 1..WindowFill were created
\* in this order, and proposal 1 was approved and executed
WindowFill == MAX_STORED_NONCES - 1
WindowKeys == MultisigIds \X (1..(WindowFill + WindowExtra))
\* the oldest two nonces and the fresh ones
WindowNonces == {1, 2} \cup ((WindowFill + 1)..(WindowFill + WindowExtra))
WindowOwners == {1, 2}
WindowInstruction ==
    [program_id |-> 21, accounts |-> <<TransactionAccount(31, FALSE, TRUE)>>, data |-> <<7, 8>>]

WindowMultisig == [initialize(1, <<1, 2>>, 1, Outsider).multisig
                      EXCEPT !.used_nonces = RangeList(WindowFill)]

WindowCreated(nonce) ==
    create_transaction(WindowMultisig, 1, nonce, WindowInstruction, "None").transaction

WindowExecuted(nonce) ==
    execute_transaction(WindowMultisig,
        approve_transaction(WindowMultisig, WindowCreated(nonce), 1).transaction, 1, TRUE)

InitWindow ==
    /\ multisigs = [id \in MultisigIds |-> WindowMultisig]
    /\ transactions = [k \in WindowKeys |->
            IF k[2] = 1 THEN WindowExecuted(1).transaction
            ELSE IF k[2] <= WindowFill THEN WindowCreated(k[2])
            ELSE NoTransaction]
    /\ dispatched = [k \in WindowKeys |->
            IF k[2] = 1 THEN <<BuildInstruction(WindowCreated(1))>> ELSE <<>>]
    /\ last = Outcome("execute_transaction", 1, 1, "Ok", TRUE, WindowExecuted(1).event)
    /\ calls = [c \in CallIds |-> NoCall]

NextWindow ==
    \/ \E id \in MultisigIds, threshold \in {1, 2}, creator \in Creators :
          Initialize(id, <<1, 2>>, threshold, creator)
    \/ \E id \in MultisigIds, proposer \in {1, Outsider}, nonce \in WindowNonces :
          CreateTransaction(id, proposer, nonce, WindowInstruction, "None")
    \/ \E id \in MultisigIds, nonce \in {1, 2}, owner \in WindowOwners :
          ApproveTransaction(id, nonce, owner)
    \/ \E id \in MultisigIds, nonce \in {1, 2}, executor \in WindowOwners,
          dispatch_ok \in BOOLEAN :
          ExecuteTransaction(id, nonce, executor, dispatch_ok)

SpecWindow == InitWindow /\ [][NextWindow]_vars

\* ---------------------------------- execute_transaction calls side by side
\* a runtime that loads the transaction account for several calls at once
WriteLockFree_unlocked(k) == TRUE

\* the transaction account is `mut` in ExecuteTransaction: the runtime runs
\* one instruction at a time on an account that is writable to it
WriteLockFree(k) == \A c \in CallIds : ~(calls[c].pc = "running" /\ calls[c].key = k)

ConcurrentOwnerLists == { <<1>>, <<1, 2>> }
ConcurrentApprovals == { <<>>, <<1>>, <<2>>, <<1, 2>>, <<2, 1>> }
ConcurrentExecutors == {1, Outsider}
ConcurrentNonces == {1}

\* a multisig and its proposal of nonce 1 with some approvals, not executed
InitConcurrent ==
    \E owners \in ConcurrentOwnerLists, threshold \in 0..MaxThreshold,
       approvals \in ConcurrentApprovals :
       LET m == [initialize(1, owners, threshold, Outsider).multisig
                    EXCEPT !.used_nonces = <<1>>]
           created == create_transaction(m, 1, 1, WindowInstruction, "None")
           t == [created.transaction EXCEPT !.approvals = approvals]
       IN  /\ initialize(1, owners, threshold, Outsider).res = "Ok"
           /\ \A i \in DOMAIN approvals : Contains(owners, approvals[i])
           /\ multisigs = [id \in MultisigIds |-> m]
           /\ transactions = [k \in Keys |-> IF k = <<1, 1>> THEN t ELSE NoTransaction]
           /\ dispatched = [k \in Keys |-> <<>>]
           /\ last = IF approvals = <<>>
                     THEN Outcome("create_transaction", 1, 1, "Ok", FALSE, created.event)
                     ELSE Outcome("approve_transaction", 1, 1, "Ok", FALSE,
                                  TransactionApproved(<<1, 1>>, approvals[Len(approvals)],
                                                      Len(approvals), threshold))
           /\ calls = [c \in CallIds |-> NoCall]

\* the runtime starts the call: it takes the accounts and loads them
BeginExecute(c, multisig_id, nonce, executor) ==
    LET k == TransactionKey(multisig_id, nonce)
    IN  /\ calls[c].pc = "idle"
        /\ WriteLockFree(k)
        /\ calls' = [calls EXCEPT ![c] = [pc |-> "running", key |-> k, executor |-> executor,
                                          loaded |-> transactions[k], res |-> "none",
                                          invoked |-> FALSE]]
        /\ UNCHANGED <<multisigs, transactions, dispatched, last>>

\* the handler runs on the loaded account and the runtime writes it back
FinishExecute(c, dispatch_ok) ==
    LET k == calls[c].key
        acc == ExecuteTransactionAccounts(k[1], k[2])
        h == execute_transaction(multisigs[k[1]], calls[c].loaded, calls[c].executor, dispatch_ok)
        res == IF acc # "Ok" THEN acc ELSE ExitTransaction(h.res, h.transaction)
    IN  /\ calls[c].pc = "running"
        /\ transactions' = Commit(res, transactions, [transactions EXCEPT ![k] = h.transaction])
        /\ dispatched' = Commit(res, dispatched,
                [dispatched EXCEPT ![k] = Append(@, BuildInstruction(calls[c].loaded))])
        /\ last' = Outcome("execute_transaction", k[1], k[2], res, acc = "Ok" /\ h.invoked,
                           IF acc = "Ok" THEN h.event ELSE NoEvent)
        /\ calls' = [calls EXCEPT ![c].pc = "done", ![c].res = res,
                                  ![c].invoked = (acc = "Ok" /\ h.invoked)]
        /\ UNCHANGED multisigs

NextConcurrent ==
    \/ \E c \in CallIds, id \in MultisigIds, nonce \in ConcurrentNonces,
          executor \in ConcurrentExecutors :
          BeginExecute(c, id, nonce, executor)
    \/ \E c \in CallIds, dispatch_ok \in BOOLEAN :
          FinishExecute(c, dispatch_ok)

SpecConcurrent == InitConcurrent /\ [][NextConcurrent]_vars

\* ================================================================== claims
ApprovalSet(t) == { t.approvals[i] : i \in 1..Len(t.approvals) }

\* C1: every proposal whose executed flag is true has at least threshold
\* distinct approvals, threshold being that of its registry entry.
C1_NoExecutionBeforeQuorum ==
    \A k \in Keys :
        (transactions[k].exists /\ transactions[k].did_execute)
            => Cardinality(ApprovalSet(transactions[k])) >= multisigs[k[1]].threshold

C1_Witness ==
    \E k \in Keys :
        /\ transactions[k].did_execute
        /\ multisigs[k[1]].threshold = 2
        /\ Cardinality(ApprovalSet(transactions[k])) = 2

\* C2: execute on an existing, not yet executed proposal fails with
\* NotEnoughApprovals when approvals < threshold; the dispatch is attempted
\* exactly when approvals >= threshold and the proposal is not executed, and
\* execute returns Ok exactly when that dispatch succeeds; whoever the
\* executor is, owner or not.
C2_ExecuteGate ==
    [][ \A id \in MultisigIds, nonce \in Nonces, executor \in Callers, dispatch_ok \in BOOLEAN :
          LET t == transactions[TransactionKey(id, nonce)]
              m == multisigs[id]
          IN  (/\ t.exists
               /\ last'.op = "execute_transaction" /\ last'.nonce = nonce
               /\ ExecuteTransaction(id, nonce, executor, dispatch_ok))
                => /\ (~t.did_execute /\ Len(t.approvals) < m.threshold)
                        => last'.res = "NotEnoughApprovals"
                   /\ last'.invoked <=> (~t.did_execute /\ Len(t.approvals) >= m.threshold)
                   /\ (last'.res = "Ok") <=> (last'.invoked /\ dispatch_ok) ]_vars

C2_Witness ==
    /\ last.op = "execute_transaction"
    /\ last.res = "Ok"
    /\ last.event.executor = Outsider
    /\ ~Contains(multisigs[last.id].owners, Outsider)
    /\ multisigs[last.id].threshold = 1

\* C3: once a proposal is executed its executed flag stays true under every
\* operation, and every execute on it fails with AlreadyExecuted.
C3_ExecutedIsFinal ==
    [][ \A k \in Keys :
          (transactions[k].exists /\ transactions[k].did_execute)
            => /\ transactions'[k].exists /\ transactions'[k].did_execute
               /\ \A executor \in Callers, dispatch_ok \in BOOLEAN :
                    (/\ last'.op = "execute_transaction" /\ last'.nonce = k[2]
                     /\ ExecuteTransaction(k[1], k[2], executor, dispatch_ok))
                        => (last'.res = "AlreadyExecuted" /\ ~last'.invoked) ]_vars

C3_Witness ==
    /\ last.op = "execute_transaction"
    /\ last.res = "AlreadyExecuted"
    /\ transactions[TransactionKey(last.id, last.nonce)].did_execute
    /\ Len(transactions[TransactionKey(last.id, last.nonce)].approvals) = 2

\* C4: the invoked program accepts the instruction of a proposal at most once.
C4_DispatchedAtMostOnce ==
    \A k \in Keys : Len(dispatched[k]) <= 1

C4_Witness ==
    /\ last.op = "execute_transaction"
    /\ last.res = "AlreadyExecuted"
    /\ Len(dispatched[TransactionKey(last.id, last.nonce)]) = 1

\* C5 as stated: after an execute whose dispatch failed, the executed flag of
\* the proposal is true (stated for entries with threshold >= 1).
C5_FlagKeptAfterFailedDispatch ==
    (/\ last.op = "execute_transaction"
     /\ last.res = "DispatchError"
     /\ multisigs[last.id].threshold >= 1)
        => transactions[TransactionKey(last.id, last.nonce)].did_execute

\* C5 amended: an execute that passes its checks and whose dispatch fails
\* returns an error and persists nothing: the proposal is as before (not
\* executed, payload kept), nothing is recorded as dispatched, and the same
\* execute with a dispatch that succeeds would return Ok.
C5_FailedDispatchPersistsNothing ==
    [][ \A id \in MultisigIds, nonce \in Nonces, executor \in Callers :
          LET k == TransactionKey(id, nonce)
              t == transactions[k]
          IN  (/\ t.exists /\ ~t.did_execute
               /\ Len(t.approvals) >= multisigs[id].threshold
               /\ last'.op = "execute_transaction" /\ last'.nonce = nonce
               /\ ExecuteTransaction(id, nonce, executor, FALSE))
                => /\ last'.res = "DispatchError"
                   /\ transactions' = transactions
                   /\ dispatched' = dispatched
                   /\ ~transactions'[k].did_execute
                   /\ execute_transaction(multisigs'[id], transactions'[k], executor, TRUE).res
                        = "Ok" ]_vars

C5_Witness ==
    /\ last.op = "execute_transaction"
    /\ last.res = "DispatchError"
    /\ last.invoked
    /\ multisigs[last.id].threshold = 2
    /\ ~transactions[TransactionKey(last.id, last.nonce)].did_execute
    /\ transactions[TransactionKey(last.id, last.nonce)].data # <<>>

\* C6 as stated: every registry entry has a non-empty, duplicate-free owner
\* list and 1 <= threshold <= |owners|.
C6_RegistryInvariant ==
    \A id \in MultisigIds :
        multisigs[id].exists
            => /\ multisigs[id].owners # <<>>
               /\ ~HasDuplicate(multisigs[id].owners)
               /\ 1 <= multisigs[id].threshold
               /\ multisigs[id].threshold <= Len(multisigs[id].owners)

\* C7 as stated: initialize of a fresh entry with threshold = 0 or
\* threshold > |owners| fails with InvalidThreshold and creates no entry
\* (stated for owner lists that are themselves valid: non-empty, no repeats).
C7_BadThresholdRejected ==
    [][ \A id \in MultisigIds, owners \in OwnerLists, threshold \in Thresholds,
           creator \in Creators :
          (/\ ~multisigs[id].exists
           /\ last'.op = "initialize"
           /\ owners # <<>> /\ ~HasDuplicate(owners)
           /\ (threshold = 0 \/ threshold > Len(owners))
           /\ Initialize(id, owners, threshold, creator))
            => (last'.res = "InvalidThreshold" /\ ~multisigs'[id].exists) ]_vars

\* C8 as stated: initialize of a fresh entry with no owners fails with
\* NoOwners and with a repeated owner fails with DuplicateOwners, whatever
\* the threshold.
C8_OwnerErrorsWhateverThreshold ==
    [][ \A id \in MultisigIds, owners \in OwnerLists, threshold \in Thresholds,
           creator \in Creators :
          (/\ ~multisigs[id].exists
           /\ last'.op = "initialize"
           /\ Initialize(id, owners, threshold, creator))
            => /\ (owners = <<>>) => last'.res = "NoOwners"
               /\ HasDuplicate(owners) => last'.res = "DuplicateOwners" ]_vars

\* C8 amended: initialize of a fresh entry with no owners always fails, with
\* NoOwners when threshold = 0 and with InvalidThreshold otherwise; with a
\* repeated owner it always fails, with DuplicateOwners when
\* threshold <= |owners| and with InvalidThreshold otherwise; no entry is
\* created in either case.
C8_OwnerErrorsAfterThreshold ==
    [][ \A id \in MultisigIds, owners \in OwnerLists, threshold \in Thresholds,
           creator \in Creators :
          (/\ ~multisigs[id].exists
           /\ last'.op = "initialize"
           /\ (owners = <<>> \/ HasDuplicate(owners))
           /\ Initialize(id, owners, threshold, creator))
            => /\ ~multisigs'[id].exists
               /\ last'.res = IF threshold > Len(owners) THEN "InvalidThreshold"
                              ELSE IF owners = <<>> THEN "NoOwners"
                              ELSE "DuplicateOwners" ]_vars

C8_Witness ==
    /\ last.op = "initialize"
    /\ last.res \in {"NoOwners", "DuplicateOwners"}
    /\ ~multisigs[last.id].exists

\* C9 as stated: no registry entry holds more than MAX_OWNERS owners
\* (stated for entries with a threshold in 1..|owners|).
C9_AtMostMaxOwners ==
    \A id \in MultisigIds :
        (/\ multisigs[id].exists
         /\ multisigs[id].threshold >= 1
         /\ multisigs[id].threshold <= Len(multisigs[id].owners))
            => Len(multisigs[id].owners) <= MAX_OWNERS

\* C10 as stated: create_transaction by a proposer that is not an owner of
\* the registry entry fails with NotAnOwner and changes neither the
\* proposals nor used_nonces.
C10_NonOwnerGetsNotAnOwner ==
    [][ \A id \in MultisigIds, proposer \in Callers, nonce \in Nonces :
          (/\ multisigs[id].exists
           /\ ~Contains(multisigs[id].owners, proposer)
           /\ last'.op = "create_transaction" /\ last'.nonce = nonce
           /\ \E ix \in Instructions, nonce_account \in NonceAccounts :
                 CreateTransaction(id, proposer, nonce, ix, nonce_account))
            => /\ last'.res = "NotAnOwner"
               /\ transactions' = transactions
               /\ multisigs' = multisigs ]_vars

\* C10 amended: create_transaction by a proposer that is not an owner always
\* fails and changes neither the proposals nor used_nonces; the error is
\* NotAnOwner when no proposal exists yet for the nonce, and that of the
\* `init` constraint of the transaction account when one does.
C10_NonOwnerCannotPropose ==
    [][ \A id \in MultisigIds, proposer \in Callers, nonce \in Nonces :
          (/\ multisigs[id].exists
           /\ ~Contains(multisigs[id].owners, proposer)
           /\ last'.op = "create_transaction" /\ last'.nonce = nonce
           /\ \E ix \in Instructions, nonce_account \in NonceAccounts :
                 CreateTransaction(id, proposer, nonce, ix, nonce_account))
            => /\ last'.res = IF transactions[TransactionKey(id, nonce)].exists
                              THEN "AccountInUse" ELSE "NotAnOwner"
               /\ transactions' = transactions
               /\ multisigs' = multisigs ]_vars

C10_Witness ==
    /\ last.op = "create_transaction"
    /\ last.res = "NotAnOwner"
    /\ multisigs[last.id].exists
    /\ multisigs[last.id].threshold = 2
    /\ multisigs[last.id].used_nonces = <<>>
    /\ ~transactions[TransactionKey(last.id, last.nonce)].exists

\* C11 as stated: create_transaction by an owner with a nonce that is in
\* used_nonces fails with NonceAlreadyUsed and changes neither used_nonces
\* nor any proposal (stated for entries with threshold >= 1).
C11_UsedNonceGetsNonceAlreadyUsed ==
    [][ \A id \in MultisigIds, proposer \in Callers, k \in DOMAIN transactions :
          (/\ multisigs[id].exists /\ multisigs[id].threshold >= 1
           /\ k[1] = id
           /\ Contains(multisigs[id].owners, proposer)
           /\ Contains(multisigs[id].used_nonces, k[2])
           /\ last'.op = "create_transaction" /\ last'.nonce = k[2]
           /\ \E ix \in Instructions, nonce_account \in NonceAccounts :
                 CreateTransaction(id, proposer, k[2], ix, nonce_account))
            => /\ last'.res = "NonceAlreadyUsed"
               /\ transactions' = transactions
               /\ multisigs' = multisigs ]_vars

\* C11 amended: create_transaction by an owner with a nonce that is in
\* used_nonces always fails and changes neither used_nonces nor any
\* proposal; the proposal of that nonce still exists, so it is the `init`
\* constraint of the transaction account that rejects the call, before the
\* NonceAlreadyUsed check is reached.
C11_UsedNonceRejectedByInit ==
    [][ \A id \in MultisigIds, proposer \in Callers, k \in DOMAIN transactions :
          (/\ multisigs[id].exists
           /\ k[1] = id
           /\ Contains(multisigs[id].owners, proposer)
           /\ Contains(multisigs[id].used_nonces, k[2])
           /\ last'.op = "create_transaction" /\ last'.nonce = k[2]
           /\ \E ix \in Instructions, nonce_account \in NonceAccounts :
                 CreateTransaction(id, proposer, k[2], ix, nonce_account))
            => /\ transactions[k].exists
               /\ last'.res = "AccountInUse"
               /\ transactions' = transactions
               /\ multisigs' = multisigs ]_vars

C11_Witness ==
    /\ last.op = "create_transaction"
    /\ last.res = "AccountInUse"
    /\ multisigs[last.id].threshold = 2
    /\ Contains(multisigs[last.id].used_nonces, last.nonce)
    /\ Len(transactions[TransactionKey(last.id, last.nonce)].approvals) = 1

\* C12: on a proposal that is not executed, approve by an owner who has not
\* approved succeeds and appends that owner; approve by an owner who has
\* approved fails with AlreadyApproved and leaves approvals unchanged; so
\* approvals holds each approver once and its length is the number of
\* distinct approvers.
C12_ApproveOncePerOwner ==
    [][ /\ \A id \in MultisigIds, nonce \in Nonces, owner \in Callers :
            LET k == TransactionKey(id, nonce)
                t == transactions[k]
            IN  (/\ t.exists /\ ~t.did_execute
                 /\ Contains(multisigs[id].owners, owner)
                 /\ last'.op = "approve_transaction" /\ last'.nonce = nonce
                 /\ ApproveTransaction(id, nonce, owner))
                  => IF Contains(t.approvals, owner)
                     THEN last'.res = "AlreadyApproved" /\ transactions' = transactions
                     ELSE /\ last'.res = "Ok"
                          /\ transactions'[k].approvals = Append(t.approvals, owner)
        /\ \A k \in Keys :
            Len(transactions'[k].approvals) = Cardinality(ApprovalSet(transactions'[k])) ]_vars

C12_Witness ==
    /\ last.op = "approve_transaction"
    /\ last.res = "AlreadyApproved"
    /\ ~transactions[TransactionKey(last.id, last.nonce)].did_execute
    /\ Len(transactions[TransactionKey(last.id, last.nonce)].approvals) = 2

\* the errors of the precondition checks
PreconditionErrors ==
    { "InvalidThreshold", "NoOwners", "DuplicateOwners", "NotAnOwner", "NonceAlreadyUsed",
      "TooManyAccounts", "InstructionDataTooLarge", "InvalidNonceAuthority", "NotOwner",
      "AlreadyApproved", "AlreadyExecuted", "NotEnoughApprovals" }

\* C15: an instruction that ends in one of the precondition errors changes
\* no registry entry, no proposal and nothing dispatched, initialize included
\* although it assigns the fields before it validates them.
C15_FailedCallChangesNothing ==
    [][ (last'.res \in PreconditionErrors)
            => /\ multisigs' = multisigs
               /\ transactions' = transactions
               /\ dispatched' = dispatched ]_vars

C15_Witness ==
    /\ last.op = "initialize"
    /\ last.res = "DuplicateOwners"
    /\ \A id \in MultisigIds : ~multisigs[id].exists

\* C16 as stated: approve on an executed proposal fails with AlreadyExecuted
\* for every owner and with NotOwner for a non-owner, approvals unchanged
\* (stated for entries with threshold >= 1).
C16_ExecutedCheckFirst ==
    [][ \A id \in MultisigIds, nonce \in Nonces, owner \in Callers :
          LET t == transactions[TransactionKey(id, nonce)]
          IN  (/\ t.exists /\ t.did_execute /\ multisigs[id].threshold >= 1
               /\ last'.op = "approve_transaction" /\ last'.nonce = nonce
               /\ ApproveTransaction(id, nonce, owner))
                => /\ last'.res = IF Contains(multisigs[id].owners, owner)
                                  THEN "AlreadyExecuted" ELSE "NotOwner"
                   /\ transactions' = transactions ]_vars

\* C16 amended: approve on an executed proposal always fails and leaves
\* approvals unchanged: with NotOwner for a non-owner, with AlreadyApproved
\* for an owner who approved before (that check comes first), and with
\* AlreadyExecuted for an owner who had not approved.
C16_ApprovalsFrozenOnceExecuted ==
    [][ \A id \in MultisigIds, nonce \in Nonces, owner \in Callers :
          LET t == transactions[TransactionKey(id, nonce)]
          IN  (/\ t.exists /\ t.did_execute
               /\ last'.op = "approve_transaction" /\ last'.nonce = nonce
               /\ ApproveTransaction(id, nonce, owner))
                => /\ last'.res = IF ~Contains(multisigs[id].owners, owner) THEN "NotOwner"
                                  ELSE IF Contains(t.approvals, owner) THEN "AlreadyApproved"
                                  ELSE "AlreadyExecuted"
                   /\ transactions' = transactions ]_vars

C16_Witness ==
    /\ last.op = "approve_transaction"
    /\ last.res = "AlreadyExecuted"
    /\ transactions[TransactionKey(last.id, last.nonce)].did_execute
    /\ Len(transactions[TransactionKey(last.id, last.nonce)].approvals) = 1
    /\ Len(multisigs[last.id].owners) = 2

\* C18: the approvals of every proposal are distinct owners of its registry
\* entry; they are empty when the proposal is created; every step keeps the
\* approvals it finds as a prefix of the new ones, so a quorum once reached
\* is never lost.
C18_ApprovalsOnlyGrow ==
    [][ \A k \in Keys :
          LET t == transactions[k]
              u == transactions'[k]
          IN  /\ u.exists
                    => /\ Len(u.approvals) = Cardinality(ApprovalSet(u))
                       /\ \A i \in 1..Len(u.approvals) :
                            Contains(multisigs'[k[1]].owners, u.approvals[i])
                       /\ Len(u.approvals) <= Len(multisigs'[k[1]].owners)
              /\ (~t.exists /\ u.exists) => u.approvals = <<>>
              /\ t.exists
                    => /\ u.exists
                       /\ Len(u.approvals) >= Len(t.approvals)
                       /\ SubSeq(u.approvals, 1, Len(t.approvals)) = t.approvals
                       /\ (Len(t.approvals) >= multisigs[k[1]].threshold
                             => Len(u.approvals) >= multisigs'[k[1]].threshold) ]_vars

C18_Witness ==
    /\ last.op = "approve_transaction"
    /\ last.res = "Ok"
    /\ transactions[TransactionKey(last.id, last.nonce)].approvals = <<2, 1>>
    /\ transactions[TransactionKey(last.id, last.nonce)].proposer = 1

\* C19: an existing registry entry keeps its owners, threshold, creator and
\* id under every operation; initialize on it fails; approve and execute
\* leave the whole entry unchanged and create_transaction changes at most
\* its used_nonces.
C19_RegistryFrame ==
    [][ \A id \in MultisigIds :
          multisigs[id].exists
            => /\ multisigs'[id] = [multisigs[id] EXCEPT !.used_nonces = multisigs'[id].used_nonces]
               /\ (last'.op = "initialize" /\ last'.id = id) => last'.res = "AccountInUse"
               /\ (last'.op \in {"initialize", "approve_transaction", "execute_transaction"})
                    => multisigs'[id] = multisigs[id] ]_vars

C19_Witness ==
    /\ last.op = "initialize"
    /\ last.res = "AccountInUse"
    /\ multisigs[last.id].exists
    /\ multisigs[last.id].used_nonces # <<>>

\* the (program_id, accounts, data) a proposal stores
Payload(t) == [program_id |-> t.program_id, accounts |-> t.accounts, data |-> t.data]

\* C13: a proposal is created with exactly the target, accounts and payload
\* given; no step other than its successful execute changes them; a
\* successful execute hands exactly them to the invoked program and leaves
\* payload and accounts empty, so every executed proposal has both empty.
C13_PayloadRoundTrip ==
    [][ /\ \A id \in MultisigIds, proposer \in Callers, nonce \in Nonces,
             ix \in PayloadInstructions :
            (/\ last'.op = "create_transaction" /\ last'.nonce = nonce /\ last'.res = "Ok"
             /\ \E nonce_account \in NonceAccounts :
                   CreateTransaction(id, proposer, nonce, ix, nonce_account))
              => Payload(transactions'[TransactionKey(id, nonce)]) = ix
        /\ \A k \in Keys :
            LET t == transactions[k]
                u == transactions'[k]
                executed == /\ last'.op = "execute_transaction" /\ last'.res = "Ok"
                            /\ TransactionKey(last'.id, last'.nonce) = k
            IN  /\ (t.exists /\ ~executed)
                      => (Payload(u) = Payload(t) /\ dispatched'[k] = dispatched[k])
                /\ (t.exists /\ executed)
                      => /\ dispatched'[k] = Append(dispatched[k], Payload(t))
                         /\ u.program_id = t.program_id
                         /\ u.data = <<>> /\ u.accounts = <<>>
                /\ u.did_execute => (u.data = <<>> /\ u.accounts = <<>>) ]_vars

C13_Witness ==
    /\ last.op = "execute_transaction"
    /\ last.res = "Ok"
    /\ multisigs[last.id].threshold = 2
    /\ dispatched[TransactionKey(last.id, last.nonce)]
         = << [program_id |-> 22,
               accounts |-> <<TransactionAccount(32, TRUE, FALSE),
                              TransactionAccount(31, FALSE, FALSE)>>,
               data |-> <<9>>] >>
    /\ transactions[TransactionKey(last.id, last.nonce)].data = <<>>
    /\ transactions[TransactionKey(last.id, last.nonce)].accounts = <<>>

\* C17: used_nonces never holds more than MAX_STORED_NONCES entries and
\* never holds a nonce twice; a successful create_transaction appends its
\* nonce as the last entry, after dropping exactly the first entry when the
\* window was full, and keeps the other entries in their order.
C17_BoundedFifoWindow ==
    [][ \A id \in MultisigIds :
          LET old == multisigs[id].used_nonces
              new == multisigs'[id].used_nonces
          IN  /\ Len(old) <= MAX_STORED_NONCES
              /\ Cardinality({old[i] : i \in DOMAIN old}) = Len(old)
              /\ Len(new) <= MAX_STORED_NONCES
              /\ Cardinality({new[i] : i \in DOMAIN new}) = Len(new)
              /\ (last'.op = "create_transaction" /\ last'.id = id /\ last'.res = "Ok")
                    => new = IF Len(old) = MAX_STORED_NONCES
                             THEN Append(SubSeq(old, 2, Len(old)), last'.nonce)
                             ELSE Append(old, last'.nonce) ]_vars

C17_Witness ==
    /\ last.op = "create_transaction"
    /\ last.res = "Ok"
    /\ Len(multisigs[last.id].used_nonces) = MAX_STORED_NONCES
    /\ multisigs[last.id].used_nonces[1] = 3
    /\ multisigs[last.id].used_nonces[MAX_STORED_NONCES] = last.nonce

\* C20: a create_transaction for a nonce whose proposal exists fails and
\* leaves that proposal as it was, also when the nonce is no longer in
\* used_nonces; no create_transaction brings an executed proposal back to
\* not executed.
C20_NoReproposal ==
    [][ \A k \in DOMAIN transactions :
          LET t == transactions[k]
              u == transactions'[k]
          IN  /\ (/\ t.exists
                  /\ last'.op = "create_transaction"
                  /\ TransactionKey(last'.id, last'.nonce) = k)
                    => (last'.res # "Ok" /\ u = t /\ dispatched'[k] = dispatched[k])
              /\ (t.exists /\ last'.op = "create_transaction") => u = t ]_vars

C20_Witness ==
    /\ last.op = "create_transaction"
    /\ last.res = "AccountInUse"
    /\ ~Contains(multisigs[last.id].used_nonces, last.nonce)
    /\ Contains(multisigs[last.id].owners, 1)
    /\ transactions[TransactionKey(last.id, last.nonce)].did_execute
    /\ Len(dispatched[TransactionKey(last.id, last.nonce)]) = 1

\* the calls that returned res
CallsWith(res) == { c \in CallIds : calls[c].pc = "done" /\ calls[c].res = res }

\* the proposal the calls are made on has reached quorum
ConcurrentQuorum ==
    /\ \A c \in CallIds : calls[c].pc # "idle" => calls[c].key = <<1, 1>>
    /\ Len(transactions[<<1, 1>>].approvals) >= multisigs[1].threshold

\* C14 as stated: when all the execute_transaction calls made side by side
\* on a proposal that has reached quorum have returned (here for a multisig
\* of threshold one or more), exactly one of them succeeded, all the others
\* got AlreadyExecuted, and the instruction was dispatched once.
C14_OneSuccessOthersAlreadyExecuted ==
    (/\ ConcurrentQuorum
     /\ multisigs[1].threshold >= 1
     /\ \A c \in CallIds : calls[c].pc = "done")
      => /\ Cardinality(CallsWith("Ok")) = 1
         /\ Cardinality(CallsWith("AlreadyExecuted")) = NumCalls - 1
         /\ Len(dispatched[<<1, 1>>]) = 1

\* C14 amended: of the execute_transaction calls made side by side on a
\* proposal that has reached quorum, at most one succeeds, and the invoked
\* program accepts the instruction exactly as often; a call returns Ok,
\* AlreadyExecuted or the error of a failed dispatch; AlreadyExecuted is
\* returned only after another call succeeded; a call whose dispatch failed
\* leaves the proposal not executed; when no dispatch failed and all calls
\* have returned, exactly one succeeded and all the others got
\* AlreadyExecuted.
C14_AtMostOneSuccess ==
    ConcurrentQuorum
      => /\ Cardinality(CallsWith("Ok")) <= 1
         /\ Len(dispatched[<<1, 1>>]) = Cardinality(CallsWith("Ok"))
         /\ transactions[<<1, 1>>].did_execute = (CallsWith("Ok") # {})
         /\ \A c \in CallIds : calls[c].pc = "done"
               => calls[c].res \in {"Ok", "AlreadyExecuted", "DispatchError"}
         /\ CallsWith("AlreadyExecuted") # {} => CallsWith("Ok") # {}
         /\ \A c \in CallIds : (calls[c].pc = "done" /\ calls[c].invoked)
               => calls[c].res \in {"Ok", "DispatchError"}
         /\ ((\A c \in CallIds : calls[c].pc = "done") /\ CallsWith("DispatchError") = {})
               => /\ Cardinality(CallsWith("Ok")) = 1
                  /\ Cardinality(CallsWith("AlreadyExecuted")) = NumCalls - 1

C14_Witness ==
    /\ ConcurrentQuorum
    /\ multisigs[1].threshold = 2
    /\ \A c \in CallIds : calls[c].pc = "done"
    /\ calls[1].res = "AlreadyExecuted"
    /\ calls[2].res = "Ok"
    /\ Len(dispatched[<<1, 1>>]) = 1
====
